---- MODULE Spec2Model ----
(***************************************************************************)
(* Task / pipeline orchestration of the character-replacement backend      *)
(* (backend/main.py, backend/services/freepik_service.py,                  *)
(* backend/models.py).                                                     *)
(*                                                                         *)
(* A task record is a Python dict held by reference: `tasks` maps a task   *)
(* id to a dict object, and a status request keeps the reference it read   *)
(* (`task_data`) across its awaits.  The model therefore has a heap of     *)
(* dict objects (`heap`) and `tasks` maps ids to heap references.          *)
(* A coroutine runs without interruption between two awaits, so every      *)
(* action below is the code from one await (or the handler entry) to the   *)
(* next await (or the return / raise).                                     *)
(***************************************************************************)
EXTENDS Integers, Sequences, FiniteSets, TLC

VARIABLES
    tasks,      \* main.py:43   tasks: Dict[str, dict]; id -> heap reference, 0 = no entry
    heap,       \* the dict objects created at main.py:258, in creation order
    uploads,    \* main.py:42   uploads: Dict[str, dict]; the upload ids present
    req,        \* the in-flight get_task_status coroutines: position and locals
    response,   \* the HTTP response most recently produced by a handler
    nstatus,    \* number of status requests received so far
    unset       \* config.py: the endpoint settings that are empty in the environment

vars == <<tasks, heap, uploads, req, response, nstatus, unset>>

\* Python's None
None == "None"

----------------------------------------------------------------------------
\* Bounds of the model

\* task records created by successful generate requests
MaxTasks == 1
\* status requests received
MaxStatus == 3
\* task records created when only generate and upload requests are followed
MaxCreated == 2

\* coroutine slots: at most two status requests overlap
Slots == <<"rA", "rB">>
Reqs == {Slots[i] : i \in DOMAIN Slots}
\* ids the provider hands out on submit (task ids and video provider ids)
ProviderIds == {"p1", "p2"}
\* upload ids (uuid4 at main.py:115)
UploadIds == {"up1", "up2"}
\* URL lists a provider poll may carry in `generated`
UrlLists == {<< >>, <<"u1", "u2">>}
\* frame_url values of a generate request: absent, empty, a URL
FrameUrls == {None, "", "frame"}
\* the environments the process may start in: every endpoint set (the
\* defaults of config.py), or one of them set to the empty string
UnsetChoices == {{}, {"status:seedream_edit"}, {"create:kling"}}

----------------------------------------------------------------------------
\* models.py

ModelType == {"runway_act_two", "seedream_kling"}

PipelineStage ==
    {"FRAME_EXTRACTION", "FRAME_UPLOADED", "IMAGE_EDIT_STARTED", "IMAGE_EDIT_COMPLETED",
     "VIDEO_STARTED", "VIDEO_COMPLETED", "PIPELINE_COMPLETED", "FAILED"}

\* the members of the TaskStatus enum
TaskStatusValues ==
    {"CREATED", "IN_PROGRESS", "PROCESSING", "FINALIZING", "READY", "COMPLETED", "FAILED"}

\* TaskStatus(value): the enum lookup succeeds exactly for a member's value,
\* and raises ValueError otherwise
TaskStatusRaises(value) == value \notin TaskStatusValues

\* a status token the provider may send that the enum does not list
NovelToken == "QUEUED"
\* status field of a poll's JSON body: a token, or None when the field is absent
BodyStatuses == TaskStatusValues \cup {NovelToken, None}
\* status field of a submit's JSON body
SubmitStatuses == {"CREATED", NovelToken}

----------------------------------------------------------------------------
\* services/freepik_service.py: the gateway

\* What one HTTP round trip can end in: a response with a code and a body,
\* the 30 s timeout, or a network error without any response.
NetOutcomes ==
    [kind : {"http"}, code : {200}, status : BodyStatuses, generated : UrlLists,
     task_id : {None}]
    \cup [kind : {"http"}, code : {404, 503}, status : {None}, generated : {<< >>},
          task_id : {None}]
    \cup [kind : {"timeout", "network"}, code : {0}, status : {None}, generated : {<< >>},
          task_id : {None}]

SubmitOutcomes ==
    [kind : {"http"}, code : {200}, status : SubmitStatuses, generated : {<< >>},
     task_id : ProviderIds]
    \cup [kind : {"http"}, code : {404, 503}, status : {None}, generated : {<< >>},
          task_id : {None}]
    \cup [kind : {"timeout"}, code : {0}, status : {None}, generated : {<< >>},
          task_id : {None}]

\* variant: every HTTP error status is transient
AnyErrorCode(code) == code >= 400

\* "transient": 500 <= e.response.status_code < 600
TransientCode(code) == 500 <= code /\ code < 600

HttpErrorText(code) ==
    CASE code = 404 -> "HTTP error: 404"
      [] code = 503 -> "HTTP error: 503"
      [] OTHER -> "HTTP error"

\* str(e) of the exception httpx raises without a response
ExceptionText(net) == IF net.kind = "timeout" THEN "ReadTimeout" ELSE "ConnectError"

\* The dict a gateway call returns, as main.py reads it: `transient` is the
\* truthiness of result.get("transient"), FALSE when the key is absent.
GatewayFailure(error, transient) ==
    [success |-> FALSE, status |-> None, result_urls |-> << >>, task_id |-> None,
     error |-> error, transient |-> transient]

\* the `except Exception` arm of get_task_status: no "transient" key
PollExceptionResult(net) == GatewayFailure(ExceptionText(net), FALSE)

\* the `except httpx.HTTPStatusError` arm of get_task_status
PollHttpErrorResult(net) == GatewayFailure(HttpErrorText(net.code), TransientCode(net.code))

\* FreepikClient.get_task_status(task_id, model), given whether the status URL
\* template of `model` is configured and what the round trip ends in
FreepikClient_get_task_status(configured, net) ==
    IF ~configured
    THEN GatewayFailure("Status endpoint not configured for model", FALSE)
    ELSE IF net.kind = "http" /\ net.code = 200
    THEN [success |-> TRUE,
          status |-> IF net.status = None THEN "UNKNOWN" ELSE net.status,
          result_urls |-> net.generated, task_id |-> None,
          error |-> None, transient |-> FALSE]
    ELSE IF net.kind = "http"
    THEN PollHttpErrorResult(net)
    ELSE PollExceptionResult(net)

\* FreepikClient.create_task / create_seedream_edit_task / create_kling_task:
\* main.py reads only success, task_id, status and error of the result
FreepikClient_create(configured, net) ==
    IF ~configured
    THEN GatewayFailure("create URL is not set", FALSE)
    ELSE IF net.kind = "http" /\ net.code = 200
    THEN [success |-> TRUE, status |-> net.status, result_urls |-> << >>,
          task_id |-> net.task_id, error |-> None, transient |-> FALSE]
    ELSE IF net.kind = "http"
    THEN GatewayFailure(HttpErrorText(net.code), FALSE)
    ELSE GatewayFailure(ExceptionText(net), FALSE)

----------------------------------------------------------------------------
\* main.py: records

\* variant: a record is created as already processing
NewTaskProcessing(model, status, frame_url, pipeline_stage, seedream_task_id) ==
    [model |-> model, status |-> "PROCESSING", frame_url |-> frame_url,
     pipeline_stage |-> pipeline_stage, seedream_task_id |-> seedream_task_id,
     kling_task_id |-> None, intermediate_url |-> None, result_urls |-> << >>]

\* the dict stored at main.py:258-273 (the fields get_task_status reads or writes)
NewTask(model, status, frame_url, pipeline_stage, seedream_task_id) ==
    [model |-> model, status |-> status, frame_url |-> frame_url,
     pipeline_stage |-> pipeline_stage, seedream_task_id |-> seedream_task_id,
     kling_task_id |-> None, intermediate_url |-> None, result_urls |-> << >>]

\* variant: every record is created with the first pipeline stage
StageForEveryModel(model) == "IMAGE_EDIT_STARTED"

\* result.get("pipeline_stage") at main.py:268: set at main.py:247 for the
\* pipeline model only
InitialStage(model) == IF model = "seedream_kling" THEN "IMAGE_EDIT_STARTED" ELSE None

\* variant: every record keeps the submitted id as its image-edit id
SeedreamIdForEveryModel(model, task_id) == task_id

\* result.get("seedream_task_id") at main.py:269
InitialSeedreamId(model, task_id) == IF model = "seedream_kling" THEN task_id ELSE None

\* StatusResponse defaults (models.py:91-101) and the ghost fields of a response:
\*   endpoint  the handler that produced it
\*   via       the return / raise site of the handler
\*   calls     the provider calls the request made, in order
\*   net       what the request's last provider round trip ended in
\*   task_data the dict object the request worked on
\*   issued    the provider id the request's video submit returned
\*   overwrote the video provider id stored when that submit returned
\*   polled_id the provider id the request's poll was made with
\*   polled_status the status the request's poll returned
\*   entry_stage   the stage the request read on entry (main.py:352)
\*   input_image   the input_image_url the request's video submit was called with
\*   issued_status the status the request's video submit returned
\*   request   the body of the generate request
NoRequest == [upload_id |-> None, direct_urls |-> None, model |-> None, frame_url |-> None]

DefaultResponse ==
    [endpoint |-> "none", req |-> None, task_id |-> None, code |-> 0, detail |-> None,
     status |-> None, progress_stage |-> None, pipeline_stage |-> None,
     frame_url |-> None, intermediate_url |-> None, result_urls |-> << >>,
     model_used |-> None, via |-> "none", calls |-> << >>, net |-> "none",
     task_data |-> 0, issued |-> None, overwrote |-> None, polled_id |-> None,
     polled_status |-> None, entry_stage |-> None,
     input_image |-> None, issued_status |-> None, request |-> NoRequest]

\* variant: the label is the status token itself
VerbatimLabel(status) == status

\* progress_stage_map.get(status, status), main.py:308-321 and 333-347
progress_stage_map(status) ==
    CASE status = "CREATED" -> "Uploaded"
      [] status = "IN_PROGRESS" -> "In Progress"
      [] status = "PROCESSING" -> "Processing"
      [] status = "FINALIZING" -> "Finalizing"
      [] status = "READY" -> "Ready"
      [] status = "COMPLETED" -> "Ready"
      [] status = "FAILED" -> "Failed"
      [] OTHER -> status

\* str(PipelineStage.X) of a str-mixin Enum member, str(None) for None
StrOfStage(stage) ==
    CASE stage = None -> "None"
      [] stage = "IMAGE_EDIT_STARTED" -> "PipelineStage.IMAGE_EDIT_STARTED"
      [] stage = "IMAGE_EDIT_COMPLETED" -> "PipelineStage.IMAGE_EDIT_COMPLETED"
      [] stage = "VIDEO_STARTED" -> "PipelineStage.VIDEO_STARTED"
      [] stage = "PIPELINE_COMPLETED" -> "PipelineStage.PIPELINE_COMPLETED"
      [] stage = "FAILED" -> "PipelineStage.FAILED"
      [] OTHER -> "PipelineStage"

\* the kind of round trip, for the ghost field `net`
NetKind(net) ==
    IF net.kind # "http" THEN net.kind
    ELSE IF net.code = 200 THEN "http2xx"
    ELSE IF net.code \div 100 = 5 THEN "http5xx" ELSE "http4xx"

IdleReq ==
    [pc |-> "idle", task_id |-> None, task_data |-> 0, pipeline_stage |-> None,
     provider_id |-> None, intermediate_url |-> None, calls |-> << >>]

\* a StatusResponse returned by get_task_status
StatusOk(r, fields) ==
    [endpoint |-> "status", req |-> r, task_id |-> req[r].task_id, code |-> 200]
        @@ fields @@ DefaultResponse

\* an HTTPException raised by get_task_status (main.py:509-512, 530-535)
StatusError(r, code, detail, fields) ==
    [endpoint |-> "status", req |-> r, task_id |-> req[r].task_id, code |-> code,
     detail |-> detail] @@ fields @@ DefaultResponse

\* str(e) of the ValueError TaskStatus(value) raises, and of the IndexError of [][0]
NotAValidTaskStatus == "is not a valid TaskStatus"
ListIndexOutOfRange == "list index out of range"

----------------------------------------------------------------------------
\* main.py: upload_files and generate_video

\* The response a handler returns is sent to the client before the event loop
\* runs the next handler step: sending reads and writes no program state, so
\* the order of a send and another coroutine's step makes no difference.
Sent == response.endpoint = "none"

send_response ==
    /\ ~Sent
    /\ response' = DefaultResponse
    /\ UNCHANGED <<tasks, heap, uploads, req, nstatus, unset>>

\* the process starts with empty stores; `env` is the set of environments
\* it may start in
InitIn(env) ==
    /\ tasks = [id \in ProviderIds |-> 0]
    /\ heap = << >>
    /\ uploads = {}
    /\ req = [r \in Reqs |-> IdleReq]
    /\ response = DefaultResponse
    /\ nstatus = 0
    /\ unset \in env

\* every endpoint setting has its config.py default
Init == InitIn({{}})

\* Upload ids are interchangeable: the first uuid4 drawn is called up1.
FreshUploadIds == IF "up1" \notin uploads THEN {"up1"} ELSE UploadIds \ uploads

\* upload_files (main.py:81-132): a content type outside the valid lists is
\* rejected with 400, a failed Cloudinary upload with 500, and a success
\* stores the two URLs under a fresh uuid4
upload_files(upload_id, outcome) ==
    /\ Sent
    /\ upload_id \in FreshUploadIds
    /\ uploads' = IF outcome = "ok" THEN uploads \cup {upload_id} ELSE uploads
    /\ response' =
        [endpoint |-> "upload",
         code |-> CASE outcome = "ok" -> 200
                    [] outcome = "invalid_type" -> 400
                    [] OTHER -> 500,
         via |-> outcome] @@ DefaultResponse
    /\ UNCHANGED <<tasks, heap, req, nstatus, unset>>

\* Provider ids are interchangeable: the first one the provider hands out is
\* called p1, every later one is any id.
IdsOffered == IF heap = << >> THEN {"p1"} ELSE ProviderIds

GenerateError(request, code, detail, via, calls, net) ==
    [endpoint |-> "generate", code |-> code, detail |-> detail, via |-> via,
     calls |-> calls, request |-> request, net |-> net] @@ DefaultResponse

\* What the framework answers when model_post_init raises ValueError: 422 when
\* pydantic reports it as a validation error, 500 (main.py:538-544) when the
\* ValueError reaches the general exception handler.
ValidationCodes == {422, 500}

\* detail of a failed submit: main.py:252-255 for the single-step model,
\* main.py:237-241 for the pipeline model
SubmitFailureDetail(model, error) ==
    IF model = "seedream_kling" THEN error
    ELSE CASE error = "HTTP error: 404" -> "Failed to create task: HTTP error: 404"
           [] error = "HTTP error: 503" -> "Failed to create task: HTTP error: 503"
           [] OTHER -> "Failed to create task"

\* variant: only an absent frame_url is refused
FrameUrlAbsent(frame_url) == frame_url = None

\* `if not frame_url` at main.py:217
FrameUrlMissing(frame_url) == frame_url = None \/ frame_url = ""

\* The generate requests of the model (models.py:59-64): direct URLs with
\* either model and any frame_url, an upload id, and the two requests
\* model_post_init refuses (neither source, both sources).  upload_id and
\* direct_urls are None when absent.
GenerateRequests ==
    [upload_id : {None}, direct_urls : {"direct"}, model : ModelType, frame_url : FrameUrls]
    \cup [upload_id : UploadIds, direct_urls : {None}, model : {"runway_act_two"},
          frame_url : {None}]
    \cup [upload_id : UploadIds \cup {None}, direct_urls : {None},
          model : {"seedream_kling"}, frame_url : {"frame"}]
    \cup [upload_id : UploadIds, direct_urls : {"direct"}, model : {"runway_act_two"},
          frame_url : {None}]

\* variant: a request with both sources is accepted
NeitherSourceGiven(request) == request.upload_id = None /\ request.direct_urls = None

\* GenerateRequest.model_post_init (models.py:66-71) raises
PostInitRaises(request) ==
    \/ request.upload_id = None /\ request.direct_urls = None
    \/ request.upload_id # None /\ request.direct_urls # None

\* generate_video (main.py:190-280), after GenerateRequest.model_post_init
generate_video(request) ==
    /\ Sent
    /\ UNCHANGED <<uploads, req, nstatus, unset>>
    /\ LET model == request.model
           frame_url == request.frame_url
       IN
       \/ \* models.py:68-71: neither source, or both
          /\ PostInitRaises(request)
          /\ \E code \in ValidationCodes :
                response' = GenerateError(request, code, "ValueError", "validation", << >>, "none")
          /\ UNCHANGED <<tasks, heap>>
       \/ \* main.py:192-198: unknown upload id
          /\ ~PostInitRaises(request)
          /\ request.upload_id # None /\ request.upload_id \notin uploads
          /\ response' = GenerateError(request, 404, "Upload not found", "upload_not_found", << >>,
                                       "none")
          /\ UNCHANGED <<tasks, heap>>
       \/ \* main.py:216-221: pipeline model without a frame URL
          /\ ~PostInitRaises(request)
          /\ request.upload_id # None => request.upload_id \in uploads
          /\ model = "seedream_kling" /\ FrameUrlMissing(frame_url)
          /\ response' = GenerateError(request, 400,
                                       "frame_url is required for pipeline model",
                                       "frame_url_required", << >>, "none")
          /\ UNCHANGED <<tasks, heap>>
       \/ \* main.py:206-214 / 223-235: the submit, and main.py:237-275
          /\ ~PostInitRaises(request)
          /\ request.upload_id # None => request.upload_id \in uploads
          /\ model = "seedream_kling" => ~FrameUrlMissing(frame_url)
          /\ \E net \in SubmitOutcomes :
             LET result == FreepikClient_create(
                               model = "seedream_kling" => "create:seedream_edit" \notin unset,
                               net)
                 call == IF model = "seedream_kling" THEN "submit_seedream_edit"
                         ELSE "submit_runway"
             IN  IF ~result.success
                 THEN /\ response' = GenerateError(request, 500,
                                            SubmitFailureDetail(model, result.error),
                                            "submit_failed", <<call>>, NetKind(net))
                      /\ UNCHANGED <<tasks, heap>>
                 ELSE /\ result.task_id \in IdsOffered
                      /\ heap' = Append(heap,
                            NewTask(model, result.status,
                                    IF model = "seedream_kling" THEN frame_url ELSE None,
                                    InitialStage(model),
                                    InitialSeedreamId(model, result.task_id)))
                      /\ tasks' = [tasks EXCEPT ![result.task_id] = Len(heap) + 1]
                      /\ response' =
                            [endpoint |-> "generate", task_id |-> result.task_id,
                             code |-> 200, status |-> result.status, via |-> "created",
                             calls |-> <<call>>, request |-> request,
                             net |-> NetKind(net)] @@ DefaultResponse

----------------------------------------------------------------------------
\* main.py: get_task_status

\* a status request may be received: a free coroutine slot
\* The slots are interchangeable, so a request takes the first free one.
CanReceive(r) ==
    /\ Sent
    /\ req[r].pc = "idle"
    /\ \A i, j \in DOMAIN Slots : (i < j /\ Slots[j] = r) => req[Slots[i]].pc # "idle"

\* main.py:295-296
get_task_status_not_found(r, task_id) ==
    /\ CanReceive(r)
    /\ tasks[task_id] = 0
    /\ response' = [endpoint |-> "status", req |-> r, task_id |-> task_id, code |-> 404,
                    detail |-> "Task not found", via |-> "not_found"] @@ DefaultResponse
    /\ UNCHANGED <<tasks, heap, uploads, req, unset>>

\* variant: the image edit is polled at the video stage too
EditAndVideoStages == {"IMAGE_EDIT_STARTED", "FRAME_UPLOADED", "VIDEO_STARTED"}

\* the stages in which get_task_status polls the image edit (main.py:355)
EditPollStages == {"IMAGE_EDIT_STARTED", "FRAME_UPLOADED"}

\* the poll a status request awaits first, from the model and the stage it
\* read (main.py:302-303, 355-357, 433-435); "none" is the fallback
FirstPoll(td) ==
    IF td.model = "runway_act_two" THEN "poll_runway"
    ELSE IF td.pipeline_stage \in EditPollStages THEN "poll_edit"
    ELSE IF td.pipeline_stage = "VIDEO_STARTED" THEN "poll_kling"
    ELSE "none"

\* main.py:298-303, 352-357, 433-435: the request reads its record and
\* suspends at the poll of the provider task it names
get_task_status_entry(r, task_id) ==
    /\ CanReceive(r)
    /\ tasks[task_id] # 0
    /\ LET ref == tasks[task_id]
           td == heap[ref]
       IN  /\ FirstPoll(td) # "none"
           /\ req' = [req EXCEPT ![r] =
                [pc |-> FirstPoll(td), task_id |-> task_id, task_data |-> ref,
                 pipeline_stage |-> td.pipeline_stage,
                 provider_id |-> CASE FirstPoll(td) = "poll_runway" -> task_id
                                   [] FirstPoll(td) = "poll_edit" -> td.seedream_task_id
                                   [] OTHER -> td.kling_task_id,
                 intermediate_url |-> None,
                 calls |-> <<FirstPoll(td)>>]]
    /\ UNCHANGED <<tasks, heap, uploads, response, unset>>

\* main.py:497-507: the fallback, for every other stage
get_task_status_fallback(r, task_id) ==
    /\ CanReceive(r)
    /\ tasks[task_id] # 0
    /\ LET td == heap[tasks[task_id]]
           g == [via |-> "fallback", req |-> r, task_id |-> task_id,
                 endpoint |-> "status", task_data |-> tasks[task_id]]
       IN  /\ FirstPoll(td) = "none"
           /\ response' =
                IF TaskStatusRaises(td.status)
                THEN [code |-> 500, detail |-> NotAValidTaskStatus] @@ g @@ DefaultResponse
                ELSE [code |-> 200, status |-> td.status,
                      progress_stage |-> StrOfStage(td.pipeline_stage),
                      pipeline_stage |-> td.pipeline_stage,
                      frame_url |-> td.frame_url,
                      intermediate_url |-> td.intermediate_url,
                      result_urls |-> td.result_urls,
                      model_used |-> td.model] @@ g @@ DefaultResponse
    /\ UNCHANGED <<tasks, heap, uploads, req, unset>>

\* the gateway poll a suspended request made, and its ghost record
PollOf(model, net) == FreepikClient_get_task_status(("status:" \o model) \notin unset, net)
Ghost(r, via, model, net) ==
    [via |-> via, calls |-> req[r].calls, task_data |-> req[r].task_data,
     polled_id |-> req[r].provider_id,
     polled_status |-> PollOf(model, net).status,
     entry_stage |-> req[r].pipeline_stage,
     net |-> IF ("status:" \o model) \in unset THEN "none" ELSE NetKind(net)]

\* `if result_urls: task_data["result_urls"] = result_urls` (main.py:330-331, 457-458)
StoreResultUrls(stored, result_urls) == IF result_urls # << >> THEN result_urls ELSE stored

\* the response of a transient poll failure of the single-step model
\* (main.py:306-323)
RunwayTransientResponse(r, td, g) ==
    LET status == td.status
    IN  IF TaskStatusRaises(status)
        THEN StatusError(r, 500, NotAValidTaskStatus, g)
        ELSE StatusOk(r, [status |-> status, result_urls |-> td.result_urls,
                          progress_stage |-> progress_stage_map(status),
                          model_used |-> td.model] @@ g)

\* the response of a transient poll failure of the pipeline model
\* (main.py:360-370, 438-448)
PipelineTransientResponse(r, td, g) ==
    LET status == td.status
    IN  IF TaskStatusRaises(status)
        THEN StatusError(r, 500, NotAValidTaskStatus, g)
        ELSE StatusOk(r, [status |-> status, progress_stage |-> status,
                          pipeline_stage |-> req[r].pipeline_stage,
                          frame_url |-> td.frame_url,
                          intermediate_url |-> td.intermediate_url,
                          result_urls |-> td.result_urls,
                          model_used |-> td.model] @@ g)

\* variant: a fatal poll failure marks the record as failed
FailedOnFatalPoll(td) == [td EXCEPT !.pipeline_stage = "FAILED"]

\* the record after a poll failed fatally: the HTTPException is raised with
\* the record untouched (main.py:324, 371, 449)
OnFatalPoll(td) == td

\* main.py:303-349: the single-step poll returns
get_task_status_runway(r) ==
    /\ Sent
    /\ req[r].pc = "poll_runway"
    /\ req' = [req EXCEPT ![r] = IdleReq]
    /\ UNCHANGED <<tasks, uploads, nstatus, unset>>
    /\ \E net \in NetOutcomes :
        LET ref == req[r].task_data
            td == heap[ref]
            result == PollOf("runway_act_two", net)
        IN  \/ /\ ~result.success /\ result.transient
               /\ response' = RunwayTransientResponse(r, td,
                                  Ghost(r, "transient", "runway_act_two", net))
               /\ UNCHANGED heap
            \/ /\ ~result.success /\ ~result.transient
               /\ response' = StatusError(r, 500, result.error,
                                  Ghost(r, "fatal", "runway_act_two", net))
               /\ heap' = [heap EXCEPT ![ref] = OnFatalPoll(td)]
            \/ /\ result.success
               /\ heap' = [heap EXCEPT ![ref] =
                    [td EXCEPT !.status = result.status,
                               !.result_urls = StoreResultUrls(@, result.result_urls)]]
               /\ response' =
                    LET g == Ghost(r, "polled", "runway_act_two", net)
                    IN  IF TaskStatusRaises(result.status)
                        THEN StatusError(r, 500, NotAValidTaskStatus, g)
                        ELSE StatusOk(r, [status |-> result.status,
                                          result_urls |-> result.result_urls,
                                          progress_stage |-> progress_stage_map(result.status),
                                          model_used |-> td.model] @@ g)

\* variants: a failed video submit leaves the stage of the completed image
\* edit; a successful one restarts the image edit
StageKeptOnSubmitFailure == "IMAGE_EDIT_COMPLETED"
StageRestartedOnSubmit == "IMAGE_EDIT_STARTED"

\* variant: a completed image edit leaves the stage of the running edit
StageKeptOnEditCompleted == "IMAGE_EDIT_STARTED"

\* variant: a provider failure leaves the stage of the running video
StageKeptOnProviderFailed == "VIDEO_STARTED"

\* variant: a completed video poll stores the stage of the video step only
StageVideoOnly == "VIDEO_COMPLETED"

\* the stages get_task_status writes (main.py:379, 388, 393, 409, 455, 473)
StageOnEditCompleted == "IMAGE_EDIT_COMPLETED"
StageOnSubmitFailure == "FAILED"
StageOnSubmitSuccess == "VIDEO_STARTED"
StageOnProviderFailed == "FAILED"
StageOnVideoCompleted == "PIPELINE_COMPLETED"

\* variant: the last generated URL is taken
LastUrlOf(result_urls) == result_urls[Len(result_urls)]

\* edit_result.get("result_urls", [None])[0] on a non-empty list (main.py:377)
IntermediateUrlOf(result_urls) == result_urls[1]

\* variant: a poll that is neither completed nor failed marks the video as started
RunningPollStartsVideo(td, status) ==
    [td EXCEPT !.status = status, !.pipeline_stage = "VIDEO_STARTED"]

\* task_data["status"] = edit_status / video_status (main.py:421, 485)
OnRunningPoll(td, status) == [td EXCEPT !.status = status]

\* main.py:357-430: the image-edit poll returns
get_task_status_edit(r) ==
    /\ Sent
    /\ req[r].pc = "poll_edit"
    /\ UNCHANGED <<uploads, nstatus, unset>>
    /\ \E net \in NetOutcomes :
        LET ref == req[r].task_data
            td == heap[ref]
            task_id == req[r].task_id
            edit_result == PollOf("seedream_edit", net)
            edit_status == edit_result.status
        IN  \/ \* main.py:360-370
               /\ ~edit_result.success /\ edit_result.transient
               /\ response' = PipelineTransientResponse(r, td,
                                  Ghost(r, "transient", "seedream_edit", net))
               /\ req' = [req EXCEPT ![r] = IdleReq]
               /\ UNCHANGED <<tasks, heap>>
            \/ \* main.py:371
               /\ ~edit_result.success /\ ~edit_result.transient
               /\ response' = StatusError(r, 500, edit_result.error,
                                  Ghost(r, "fatal", "seedream_edit", net))
               /\ req' = [req EXCEPT ![r] = IdleReq]
               /\ heap' = [heap EXCEPT ![ref] = OnFatalPoll(td)]
               /\ UNCHANGED tasks
            \/ \* main.py:377 on an empty list: IndexError, caught at main.py:511
               /\ edit_result.success /\ edit_status = "COMPLETED"
               /\ edit_result.result_urls = << >>
               /\ response' = StatusError(r, 500, ListIndexOutOfRange,
                                  Ghost(r, "edit_completed", "seedream_edit", net))
               /\ req' = [req EXCEPT ![r] = IdleReq]
               /\ UNCHANGED <<tasks, heap>>
            \/ \* main.py:376-385: record the image, suspend at the video submit
               /\ edit_result.success /\ edit_status = "COMPLETED"
               /\ edit_result.result_urls # << >>
               /\ LET intermediate_url == IntermediateUrlOf(edit_result.result_urls)
                  IN  /\ heap' = [heap EXCEPT ![ref] =
                            [td EXCEPT !.intermediate_url = intermediate_url,
                                       !.pipeline_stage = StageOnEditCompleted]]
                      /\ req' = [req EXCEPT ![r] =
                            [@ EXCEPT !.pc = "submit_kling",
                                      !.intermediate_url = intermediate_url,
                                      !.calls = Append(@, "submit_kling")]]
               /\ UNCHANGED <<tasks, response>>
            \/ \* main.py:408-418
               /\ edit_result.success /\ edit_status = "FAILED"
               /\ heap' = [heap EXCEPT ![ref] =
                    [td EXCEPT !.pipeline_stage = StageOnProviderFailed,
                               !.status = edit_status]]
               /\ tasks' = [tasks EXCEPT ![task_id] = ref]
               /\ response' = StatusOk(r, [status |-> "FAILED", progress_stage |-> "FAILED",
                                           pipeline_stage |-> "FAILED",
                                           model_used |-> td.model]
                                  @@ Ghost(r, "provider_failed", "seedream_edit", net))
               /\ req' = [req EXCEPT ![r] = IdleReq]
            \/ \* main.py:420-430
               /\ edit_result.success /\ edit_status \notin {"COMPLETED", "FAILED"}
               /\ heap' = [heap EXCEPT ![ref] = OnRunningPoll(td, edit_status)]
               /\ tasks' = [tasks EXCEPT ![task_id] = ref]
               /\ response' =
                    LET g == Ghost(r, "running", "seedream_edit", net)
                    IN  IF TaskStatusRaises(edit_status)
                        THEN StatusError(r, 500, NotAValidTaskStatus, g)
                        ELSE StatusOk(r, [status |-> edit_status,
                                          progress_stage |-> edit_status,
                                          pipeline_stage |-> req[r].pipeline_stage,
                                          frame_url |-> td.frame_url,
                                          model_used |-> td.model] @@ g)
               /\ req' = [req EXCEPT ![r] = IdleReq]

\* variant: the video provider id stored first is kept
KeepFirstKlingId(stored, issued) == IF stored = None THEN issued ELSE stored

\* task_data["kling_task_id"] = video_result["task_id"] (main.py:392)
KlingIdOnSubmit(stored, issued) == issued

\* main.py:381-406: the video submit returns
get_task_status_submit(r) ==
    /\ Sent
    /\ req[r].pc = "submit_kling"
    /\ req' = [req EXCEPT ![r] = IdleReq]
    /\ UNCHANGED <<uploads, nstatus, unset>>
    /\ \E net \in SubmitOutcomes :
        LET ref == req[r].task_data
            td == heap[ref]
            task_id == req[r].task_id
            video_result == FreepikClient_create("create:kling" \notin unset, net)
            g == [via |-> IF video_result.success THEN "video_started" ELSE "submit_failed",
                  calls |-> req[r].calls, task_data |-> req[r].task_data,
                  issued |-> video_result.task_id, overwrote |-> td.kling_task_id,
                  input_image |-> req[r].intermediate_url,
                  entry_stage |-> req[r].pipeline_stage,
                  issued_status |-> video_result.status,
                  net |-> IF "create:kling" \in unset THEN "none" ELSE NetKind(net)]
        IN  \/ \* main.py:387-390
               /\ ~video_result.success
               /\ heap' = [heap EXCEPT ![ref] =
                    [td EXCEPT !.pipeline_stage = StageOnSubmitFailure]]
               /\ tasks' = [tasks EXCEPT ![task_id] = ref]
               /\ response' = StatusError(r, 500, video_result.error, g)
            \/ \* main.py:392-406
               /\ video_result.success
               /\ heap' = [heap EXCEPT ![ref] =
                    [td EXCEPT !.kling_task_id = KlingIdOnSubmit(@, video_result.task_id),
                               !.pipeline_stage = StageOnSubmitSuccess,
                               !.status = video_result.status]]
               /\ tasks' = [tasks EXCEPT ![task_id] = ref]
               /\ response' =
                    IF TaskStatusRaises(video_result.status)
                    THEN StatusError(r, 500, NotAValidTaskStatus, g)
                    ELSE StatusOk(r, [status |-> video_result.status,
                                      progress_stage |-> "VIDEO_STARTED",
                                      pipeline_stage |-> "VIDEO_STARTED",
                                      frame_url |-> td.frame_url,
                                      intermediate_url |-> req[r].intermediate_url,
                                      result_urls |-> << >>,
                                      model_used |-> td.model] @@ g)

\* main.py:435-495: the video poll returns
get_task_status_kling(r) ==
    /\ Sent
    /\ req[r].pc = "poll_kling"
    /\ req' = [req EXCEPT ![r] = IdleReq]
    /\ UNCHANGED <<uploads, nstatus, unset>>
    /\ \E net \in NetOutcomes :
        LET ref == req[r].task_data
            td == heap[ref]
            task_id == req[r].task_id
            video_result == PollOf("kling_v2_5_pro", net)
            video_status == video_result.status
        IN  \/ \* main.py:438-448
               /\ ~video_result.success /\ video_result.transient
               /\ response' = PipelineTransientResponse(r, td,
                                  Ghost(r, "transient", "kling_v2_5_pro", net))
               /\ UNCHANGED <<tasks, heap>>
            \/ \* main.py:449
               /\ ~video_result.success /\ ~video_result.transient
               /\ response' = StatusError(r, 500, video_result.error,
                                  Ghost(r, "fatal", "kling_v2_5_pro", net))
               /\ heap' = [heap EXCEPT ![ref] = OnFatalPoll(td)]
               /\ UNCHANGED tasks
            \/ \* main.py:453-470
               /\ video_result.success /\ video_status = "COMPLETED"
               /\ heap' = [heap EXCEPT ![ref] =
                    [td EXCEPT !.pipeline_stage = StageOnVideoCompleted,
                               !.status = video_status,
                               !.result_urls = StoreResultUrls(@, video_result.result_urls)]]
               /\ tasks' = [tasks EXCEPT ![task_id] = ref]
               /\ response' = StatusOk(r, [status |-> "COMPLETED",
                                           progress_stage |-> "PIPELINE_COMPLETED",
                                           pipeline_stage |-> "PIPELINE_COMPLETED",
                                           frame_url |-> td.frame_url,
                                           intermediate_url |-> td.intermediate_url,
                                           result_urls |-> video_result.result_urls,
                                           model_used |-> td.model]
                                  @@ Ghost(r, "video_completed", "kling_v2_5_pro", net))
            \/ \* main.py:472-483
               /\ video_result.success /\ video_status = "FAILED"
               /\ heap' = [heap EXCEPT ![ref] =
                    [td EXCEPT !.pipeline_stage = StageOnProviderFailed,
                               !.status = video_status]]
               /\ tasks' = [tasks EXCEPT ![task_id] = ref]
               /\ response' = StatusOk(r, [status |-> "FAILED", progress_stage |-> "FAILED",
                                           pipeline_stage |-> "FAILED",
                                           intermediate_url |-> td.intermediate_url,
                                           model_used |-> td.model]
                                  @@ Ghost(r, "provider_failed", "kling_v2_5_pro", net))
            \/ \* main.py:485-495
               /\ video_result.success /\ video_status \notin {"COMPLETED", "FAILED"}
               /\ heap' = [heap EXCEPT ![ref] = OnRunningPoll(td, video_status)]
               /\ tasks' = [tasks EXCEPT ![task_id] = ref]
               /\ response' =
                    LET g == Ghost(r, "running", "kling_v2_5_pro", net)
                    IN  IF TaskStatusRaises(video_status)
                        THEN StatusError(r, 500, NotAValidTaskStatus, g)
                        ELSE StatusOk(r, [status |-> video_status,
                                          progress_stage |-> video_status,
                                          pipeline_stage |-> "VIDEO_STARTED",
                                          intermediate_url |-> td.intermediate_url,
                                          frame_url |-> td.frame_url,
                                          model_used |-> td.model] @@ g)

----------------------------------------------------------------------------
\* Specifications

UploadOutcomes == {"ok", "invalid_type", "upload_failed"}

Upload == \E u \in UploadIds, o \in UploadOutcomes : upload_files(u, o)

\* generate requests, while fewer than `limit` records were created
Generate(limit) ==
    /\ Len(heap) < limit
    /\ \E request \in GenerateRequests : generate_video(request)

Others ==
    \/ send_response
    \/ Generate(MaxTasks)

\* a received status request is counted, up to the bound
Counted == nstatus < MaxStatus /\ nstatus' = nstatus + 1

ReceiveAny(r) ==
    \/ \E id \in ProviderIds : get_task_status_not_found(r, id)
    \/ \E id \in ProviderIds : get_task_status_entry(r, id)
    \/ \E id \in ProviderIds : get_task_status_fallback(r, id)

Receive(r) == Counted /\ ReceiveAny(r)

Resume(r) ==
    \/ get_task_status_runway(r)
    \/ get_task_status_edit(r)
    \/ get_task_status_submit(r)
    \/ get_task_status_kling(r)

\* status requests may overlap: a request is received while others are suspended
Next == Others \/ \E r \in Reqs : Receive(r) \/ Resume(r)

Spec == Init /\ [][Next]_vars

\* no status request is in flight
Quiet == \A r \in Reqs : req[r].pc = "idle"

\* status requests are handled one at a time: one is received only when none
\* is in flight
SeqNext == Others \/ \E r \in Reqs : (Quiet /\ Receive(r)) \/ Resume(r)

SeqSpec == Init /\ [][SeqNext]_vars

\* status requests one at a time, in an environment that may leave the
\* image-edit status template or the video submit endpoint empty
CfgSpec == InitIn(UnsetChoices) /\ [][SeqNext]_vars

\* one task is created
CreateOne == heap = << >> /\ \E request \in GenerateRequests : generate_video(request)

\* the client asks for the status of task `id` when no request is in flight;
\* it may ask any number of times
Ask(id) ==
    \E r \in Reqs :
        /\ Quiet
        /\ UNCHANGED nstatus
        /\ get_task_status_entry(r, id) \/ get_task_status_fallback(r, id)

\* the provider call a suspended request awaits returns
Returns == \E r \in Reqs : Resume(r)

LiveNext ==
    \/ send_response
    \/ CreateOne
    \/ \E id \in ProviderIds : Ask(id)
    \/ Returns

\* Every httpx call returns (30 s timeout) and the event loop then resumes
\* the coroutine; every response is sent; the client keeps asking for the
\* status of each task it created.
LiveFairness ==
    /\ WF_vars(send_response)
    /\ WF_vars(Returns)
    /\ \A id \in ProviderIds : SF_vars(Ask(id))

\* one task, polled by a client that never stops asking
LiveSpec == Init /\ [][LiveNext]_vars /\ LiveFairness

\* uploads, generate requests and status requests for ids the store does not hold
CreateNext ==
    \/ send_response
    \/ Upload
    \/ Generate(MaxCreated)
    \/ Counted /\ \E r \in Reqs, id \in ProviderIds : get_task_status_not_found(r, id)

CreateSpec == Init /\ [][CreateNext]_vars

----------------------------------------------------------------------------
\* Properties

\* the position of a stage in the order of the pipeline
StageRank(stage) ==
    CASE stage = "IMAGE_EDIT_STARTED" -> 1
      [] stage = "IMAGE_EDIT_COMPLETED" -> 2
      [] stage = "VIDEO_STARTED" -> 3
      [] stage = "PIPELINE_COMPLETED" -> 4
      [] OTHER -> 0

Records == DOMAIN heap
IsPipeline(ref) == heap[ref].model = "seedream_kling"
StatusResponded == response.endpoint = "status"
\* the record a status response is about, after the handler's last step
Answered == heap[response.task_data]

\* C1: when status requests are handled one at a time, every change of a
\* pipeline task's stored stage moves it forward in the order
\* IMAGE_EDIT_STARTED < IMAGE_EDIT_COMPLETED < VIDEO_STARTED <
\* PIPELINE_COMPLETED or sets it to FAILED, and a FAILED stage never changes.
StageForwardOrFailed(old, new) ==
    \/ new = old
    \/ old # "FAILED" /\ new = "FAILED"
    \/ old # "FAILED" /\ StageRank(old) > 0 /\ StageRank(old) < StageRank(new)

C1_StageForwardOrFailed ==
    [][\A ref \in Records :
         IsPipeline(ref) =>
            StageForwardOrFailed(heap[ref].pipeline_stage, heap'[ref].pipeline_stage)]_vars

\* a task has gone through every stage, the last by a video poll
C1_Witness ==
    /\ StatusResponded /\ response.via = "video_completed"
    /\ Answered.pipeline_stage = "PIPELINE_COMPLETED"

\* C2: the same guarantee when status requests overlap: in no interleaving
\* does the stored stage move to an earlier stage, and in no interleaving
\* does a FAILED stage become another stage.
C2_StageForwardWhenOverlapping ==
    [][\A ref \in Records :
         IsPipeline(ref) =>
            LET old == heap[ref].pipeline_stage
                new == heap'[ref].pipeline_stage
            IN  /\ old = "FAILED" => new = "FAILED"
                /\ (old # "FAILED" /\ new # "FAILED") => StageRank(old) <= StageRank(new)]_vars

\* C3: overlapping status requests each submit the video stage, and each
\* successful submit stores its provider id over the one stored before: the
\* stored video provider id is the one written last.
C3_LastVideoSubmitWins ==
    (StatusResponded /\ response.via = "video_started")
        => Answered.kling_task_id = response.issued

\* two video submits returned for one record, and the second id replaced the first
C3_Witness ==
    /\ StatusResponded /\ response.via = "video_started"
    /\ response.overwrote # None /\ response.overwrote # response.issued
    /\ Answered.kling_task_id = response.issued

\* C4: a status request whose provider poll fails transiently returns no
\* error, leaves the task record unchanged, and returns the stored status and
\* stage, for every stored status value the task can hold.
C4_TransientPollMirrorsStored ==
    [][(response'.endpoint = "status" /\ response'.via = "transient") =>
          /\ heap' = heap /\ tasks' = tasks
          /\ response'.code = 200
          /\ response'.status = heap[response'.task_data].status
          /\ response'.pipeline_stage = heap[response'.task_data].pipeline_stage]_vars

\* C5: a provider poll that ends in the timeout or in a network error is a
\* transient failure: the status request returns the stored state, no error.
C5_DeadlineOrNetworkErrorIsTransient ==
    (/\ StatusResponded
     /\ response.net \in {"timeout", "network"}
     /\ response.via # "submit_failed")
        => (response.via = "transient" /\ response.code = 200)

\* C6: a fatal (non-transient) poll failure gives the caller an error and
\* leaves the task record as it was: the stage is not set to FAILED.
C6_FatalPollLeavesRecord ==
    [][(response'.endpoint = "status" /\ response'.via = "fatal") =>
          /\ response'.code = 500
          /\ response'.detail # None
          /\ heap' = heap /\ tasks' = tasks]_vars

\* a fatal poll failure answered for a task whose video is running
C6_Witness ==
    /\ StatusResponded /\ response.via = "fatal" /\ response.code = 500
    /\ Answered.pipeline_stage = "VIDEO_STARTED"

\* the error text of a failed submit, by the kind of round trip
SubmitErrorTexts(kind) ==
    CASE kind = "http4xx" -> {HttpErrorText(404)}
      [] kind = "http5xx" -> {HttpErrorText(503)}
      [] kind = "timeout" -> {ExceptionText([kind |-> "timeout"])}
      [] OTHER -> {}

\* C7: when the image-edit poll returns COMPLETED and the video submit then
\* fails, transiently or fatally, the stored stage is FAILED, the caller gets
\* an error with the submit's error message, and no video provider id is stored.
C7_SubmitFailureFailsTask ==
    (StatusResponded /\ response.via = "submit_failed") =>
        /\ response.code = 500
        /\ response.detail \in SubmitErrorTexts(response.net)
        /\ response.calls = <<"poll_edit", "submit_kling">>
        /\ Answered.pipeline_stage = "FAILED"
        /\ Answered.kling_task_id = None

\* the video submit failed with a 5xx answer
C7_Witness ==
    /\ StatusResponded /\ response.via = "submit_failed" /\ response.net = "http5xx"
    /\ Answered.pipeline_stage = "FAILED"

\* C8: for a pipeline task whose stored stage is PIPELINE_COMPLETED or FAILED,
\* a status request makes no provider call, leaves the record unchanged and
\* returns the stored status, stage, intermediate URL and result URLs.
C8_TerminalStageIsRead ==
    [][(/\ response'.endpoint = "status" /\ response'.task_data # 0
        /\ response' # response
        /\ heap[response'.task_data].pipeline_stage \in {"PIPELINE_COMPLETED", "FAILED"}) =>
          LET td == heap[response'.task_data]
          IN  /\ heap' = heap /\ tasks' = tasks
              /\ response'.calls = << >>
              /\ response'.code = 200
              /\ response'.status = td.status
              /\ response'.pipeline_stage = td.pipeline_stage
              /\ response'.intermediate_url = td.intermediate_url
              /\ response'.result_urls = td.result_urls]_vars

\* C9: a record of the single-step model has no stage, after creation and
\* after any status requests; a record of the pipeline model has a stage.
C9_StageOnlyForPipeline ==
    \A ref \in Records :
        /\ heap[ref].model = "runway_act_two" => heap[ref].pipeline_stage = None
        /\ heap[ref].model = "seedream_kling" => heap[ref].pipeline_stage \in PipelineStage

\* a single-step task was polled to completion
C9_Witness ==
    /\ StatusResponded /\ response.via = "polled" /\ response.status = "COMPLETED"
    /\ Answered.model = "runway_act_two" /\ Answered.pipeline_stage = None

\* C10: the stored result URL list of a task is non-empty only if its stored
\* status is COMPLETED or READY.
C10_ResultUrlsOnlyWhenCompleted ==
    \A ref \in Records :
        heap[ref].result_urls # << >> => heap[ref].status \in {"COMPLETED", "READY"}

\* C11: creating a task never replaces an existing task record: an id that
\* names a record keeps naming that record through every generate request.
C11_CreateNeverReplaces ==
    [][\A id \in ProviderIds : tasks[id] # 0 => tasks'[id] = tasks[id]]_vars

\* C12: a generate request for the pipeline model with no frame URL (absent
\* or empty) is answered with an error, makes no provider call and creates no
\* task record.
C12_PipelineNeedsFrameUrl ==
    [][(/\ response'.endpoint = "generate"
        /\ response'.request.model = "seedream_kling"
        /\ response'.request.frame_url \in {None, ""}) =>
          /\ response'.code >= 400
          /\ response'.calls = << >>
          /\ heap' = heap /\ tasks' = tasks]_vars

\* an otherwise valid pipeline request with an empty frame URL was refused
\* while the store held a record
C12_Witness ==
    /\ response.endpoint = "generate" /\ response.via = "frame_url_required"
    /\ response.request.frame_url = "" /\ response.code = 400
    /\ heap # << >>

\* C13: a generate request with both sources, with neither, or with an upload
\* id the upload store does not hold, and a status request for an id the task
\* store does not hold, are answered with an error, make no provider call and
\* leave the task store and the upload store unchanged.
C13_RejectedRequestsChangeNothing ==
    [][LET q == response'.request
           rejected ==
               \/ /\ response'.endpoint = "generate"
                  /\ \/ q.upload_id = None /\ q.direct_urls = None
                     \/ q.upload_id # None /\ q.direct_urls # None
                     \/ q.upload_id # None /\ q.upload_id \notin uploads
               \/ /\ response'.endpoint = "status"
                  /\ tasks[response'.task_id] = 0
       IN  rejected =>
              /\ response'.code >= 400
              /\ response'.calls = << >>
              /\ heap' = heap /\ tasks' = tasks /\ uploads' = uploads]_vars

\* an unknown upload id was refused while both stores held an entry
C13_Witness ==
    /\ response.endpoint = "generate" /\ response.via = "upload_not_found"
    /\ response.code = 404
    /\ uploads # {} /\ heap # << >>

\* C14: when a successful poll returns a status token outside the seven
\* enumerated ones, the status request returns no error: its response carries
\* that token as status and as progress label.
C14_UnrecognizedTokenPassesThrough ==
    (/\ StatusResponded
     /\ response.via \in {"polled", "running"}
     /\ Answered.status = NovelToken)
        => /\ response.code = 200
           /\ response.status = NovelToken
           /\ response.progress_stage = NovelToken

\* the label of each enumerated status token
NormalizedLabel ==
    [CREATED |-> "Uploaded", IN_PROGRESS |-> "In Progress", PROCESSING |-> "Processing",
     FINALIZING |-> "Finalizing", READY |-> "Ready", COMPLETED |-> "Ready",
     FAILED |-> "Failed"]

\* C15: for a single-step task, a successful poll with an enumerated status
\* token returns that token and its label (COMPLETED and READY both "Ready"),
\* and a transient poll failure returns the stored status with the same label.
C15_SingleStepLabel ==
    (/\ StatusResponded
     /\ response.via \in {"polled", "transient"}
     /\ Answered.model = "runway_act_two"
     /\ Answered.status \in TaskStatusValues)
        => /\ response.code = 200
           /\ response.status = Answered.status
           /\ response.progress_stage = NormalizedLabel[Answered.status]

\* a transient poll failure answered for a stored COMPLETED with the label of READY
C15_Witness ==
    /\ StatusResponded /\ response.via = "transient"
    /\ Answered.model = "runway_act_two"
    /\ response.status = "COMPLETED" /\ response.progress_stage = "Ready"

\* the first URL of the lists an image-edit poll may carry
FirstUrls == {urls[1] : urls \in UrlLists \ {<< >>}}

\* C16: when the image-edit poll returns COMPLETED with a non-empty list and
\* the video submit succeeds, the record holds the first URL as intermediate
\* URL, the submit was called with that URL, the returned provider id and
\* status are stored, the stage is VIDEO_STARTED, stored and returned result
\* URLs are empty, and the task id still names the record.
C16_EditCompletedStartsVideo ==
    (StatusResponded /\ response.via = "video_started") =>
        /\ Answered.intermediate_url \in FirstUrls
        /\ response.input_image = Answered.intermediate_url
        /\ response.calls = <<"poll_edit", "submit_kling">>
        /\ response.issued # None
        /\ Answered.kling_task_id = response.issued
        /\ Answered.pipeline_stage = "VIDEO_STARTED"
        /\ Answered.status = response.issued_status
        /\ Answered.result_urls = << >>
        /\ response.code = 200 => response.result_urls = << >>
        /\ tasks[response.task_id] = response.task_data

\* the request returned the started video stage with the first URL
C16_Witness ==
    /\ StatusResponded /\ response.via = "video_started" /\ response.code = 200
    /\ response.pipeline_stage = "VIDEO_STARTED"
    /\ response.intermediate_url = "u1" /\ Answered.intermediate_url = "u1"

\* C17: at stage VIDEO_STARTED, a video poll made with the stored video
\* provider id that returns COMPLETED with a non-empty URL list stores stage
\* PIPELINE_COMPLETED, status COMPLETED and that list, and returns that stage
\* and that list.
C17_VideoCompletedEndsPipeline ==
    (/\ StatusResponded /\ response.via = "video_completed"
     /\ response.result_urls # << >>)
        => /\ response.calls = <<"poll_kling">>
           /\ response.polled_id # None
           /\ response.polled_id = Answered.kling_task_id
           /\ Answered.pipeline_stage = "PIPELINE_COMPLETED"
           /\ Answered.status = "COMPLETED"
           /\ Answered.result_urls = response.result_urls
           /\ response.code = 200
           /\ response.status = "COMPLETED"
           /\ response.pipeline_stage = "PIPELINE_COMPLETED"

\* the video poll returned COMPLETED with two URLs
C17_Witness ==
    /\ StatusResponded /\ response.via = "video_completed"
    /\ response.result_urls = <<"u1", "u2">>
    /\ Answered.result_urls = <<"u1", "u2">>

\* C18: a generate request whose provider submit fails, transiently or
\* fatally, returns an error and leaves the task store unchanged; one whose
\* submit succeeds creates exactly one record, with the submit's status, no
\* result URLs, no intermediate URL, no video provider id and, for the
\* pipeline model, stage IMAGE_EDIT_STARTED.
C18_GenerateCreatesOnSuccessOnly ==
    [][(response'.endpoint = "generate" /\ response'.calls # << >>) =>
          IF response'.net # "http2xx"
          THEN /\ response'.code >= 400
               /\ heap' = heap /\ tasks' = tasks
          ELSE LET new == heap'[Len(heap')]
               IN  /\ response'.code = 200
                   /\ Len(response'.calls) = 1
                   /\ Len(heap') = Len(heap) + 1
                   /\ SubSeq(heap', 1, Len(heap)) = heap
                   /\ tasks'[response'.task_id] = Len(heap')
                   /\ \A id \in ProviderIds \ {response'.task_id} : tasks'[id] = tasks[id]
                   /\ new.model = response'.request.model
                   /\ new.status = response'.status
                   /\ new.result_urls = << >>
                   /\ new.intermediate_url = None
                   /\ new.kling_task_id = None
                   /\ new.model = "seedream_kling" =>
                         new.pipeline_stage = "IMAGE_EDIT_STARTED"]_vars

\* a pipeline task was created after another task
C18_Witness ==
    /\ response.endpoint = "generate" /\ response.via = "created"
    /\ response.request.model = "seedream_kling"
    /\ Len(heap) = 2
    /\ heap[2].pipeline_stage = "IMAGE_EDIT_STARTED" /\ heap[2].status = response.status

\* the return sites of a status request whose image-edit poll returned
\* COMPLETED: the IndexError on an empty list, the failed and the successful
\* video submit
EditPollCompleted ==
    StatusResponded /\ response.via \in {"edit_completed", "submit_failed", "video_started"}

\* C19: whenever the image-edit poll of a status request returns COMPLETED,
\* with any URL list including the empty one, the request moves the task out
\* of IMAGE_EDIT_STARTED: to VIDEO_STARTED if the video submit succeeds, to
\* FAILED if it fails.
C19_EditCompletedLeavesEditStage ==
    EditPollCompleted =>
        /\ Answered.pipeline_stage \in {"VIDEO_STARTED", "FAILED"}
        /\ response.via = "video_started" => Answered.pipeline_stage = "VIDEO_STARTED"
        /\ response.via = "submit_failed" => Answered.pipeline_stage = "FAILED"

\* C20: a successful poll with provider status FAILED, at the image-edit or
\* the video stage, stores stage FAILED and status FAILED, issues no submit,
\* and returns status FAILED with stage FAILED and no error.
C20_ProviderFailedFailsTask ==
    (StatusResponded /\ response.via = "provider_failed") =>
        /\ Answered.pipeline_stage = "FAILED"
        /\ Answered.status = "FAILED"
        /\ response.calls \in {<<"poll_edit">>, <<"poll_kling">>}
        /\ response.code = 200
        /\ response.status = "FAILED"
        /\ response.pipeline_stage = "FAILED"

\* the video poll returned FAILED
C20_Witness ==
    /\ StatusResponded /\ response.via = "provider_failed"
    /\ response.calls = <<"poll_kling">> /\ Answered.kling_task_id # None
    /\ Answered.pipeline_stage = "FAILED"

\* C21: for a pipeline task at IMAGE_EDIT_STARTED or VIDEO_STARTED, a poll
\* that succeeds with a status other than COMPLETED and FAILED stores that
\* status and changes nothing else in the record, and no submit is issued.
C21_RunningPollStoresStatusOnly ==
    [][(/\ response'.endpoint = "status"
        /\ response'.calls # << >>
        /\ response'.calls[1] \in {"poll_edit", "poll_kling"}
        /\ response'.net = "http2xx"
        /\ response'.polled_status \notin {None, "COMPLETED", "FAILED"}) =>
          LET ref == response'.task_data
          IN  /\ heap[ref].pipeline_stage \in {"IMAGE_EDIT_STARTED", "VIDEO_STARTED"}
              /\ heap' = [heap EXCEPT ![ref] =
                            [heap[ref] EXCEPT !.status = response'.polled_status]]
              /\ Len(response'.calls) = 1]_vars

\* the video poll returned PROCESSING
C21_Witness ==
    /\ StatusResponded /\ response.via = "running"
    /\ response.polled_status = "PROCESSING"
    /\ Answered.status = "PROCESSING" /\ Answered.pipeline_stage = "VIDEO_STARTED"

\* the provider calls one status request may make, in order
CallSequences ==
    {<< >>, <<"poll_runway">>, <<"poll_edit">>, <<"poll_kling">>,
     <<"poll_edit", "submit_kling">>}

\* C22: a status request issues at most two provider calls; two calls are one
\* image-edit poll followed by one video submit; a request for a single-step
\* task or read at stage VIDEO_STARTED issues exactly one poll and no submit.
C22_AtMostPollThenSubmit ==
    /\ \A r \in Reqs : req[r].calls \in CallSequences
    /\ StatusResponded =>
          /\ response.calls \in CallSequences
          /\ response.task_data # 0 =>
                /\ Answered.model = "runway_act_two" => response.calls = <<"poll_runway">>
                /\ response.entry_stage = "VIDEO_STARTED" => response.calls = <<"poll_kling">>

\* a request made a poll and a submit while another request was in flight
C22_Witness ==
    /\ StatusResponded /\ response.calls = <<"poll_edit", "submit_kling">>
    /\ \E r \in Reqs : req[r].pc # "idle"

\* C23: the stored intermediate URL is set only after an image-edit poll
\* returned COMPLETED: it is unset for every single-step record and for every
\* pipeline record at IMAGE_EDIT_STARTED, it is the first URL of a polled
\* list, and once set it is never changed or cleared when status requests
\* are handled one at a time.
C23_IntermediateUrlAfterEdit ==
    [][\A ref \in DOMAIN heap' :
         /\ (\/ heap'[ref].model = "runway_act_two"
             \/ heap'[ref].pipeline_stage = "IMAGE_EDIT_STARTED")
                => heap'[ref].intermediate_url = None
         /\ heap'[ref].intermediate_url # None => heap'[ref].intermediate_url \in FirstUrls
         /\ (ref \in Records /\ heap[ref].intermediate_url # None)
                => heap'[ref].intermediate_url = heap[ref].intermediate_url]_vars

\* the intermediate URL was kept until the pipeline completed
C23_Witness ==
    \E ref \in Records :
        /\ heap[ref].intermediate_url = "u1"
        /\ heap[ref].pipeline_stage = "PIPELINE_COMPLETED"

\* the model whose status template the poll of a status response used
PolledModel ==
    CASE response.calls[1] = "poll_runway" -> "runway_act_two"
      [] response.calls[1] = "poll_edit" -> "seedream_edit"
      [] OTHER -> "kling_v2_5_pro"

\* C24: a poll that ended in an HTTP 5xx response is handled as a transient
\* failure; a poll that ended in an HTTP 4xx response and a poll whose status
\* template is not configured are handled as fatal failures, and for the
\* missing template no network request was made.
C24_PollFailureClasses ==
    (StatusResponded /\ Len(response.calls) = 1) =>
        /\ response.net = "http5xx" => response.via = "transient"
        /\ response.net = "http4xx" => response.via = "fatal"
        /\ ("status:" \o PolledModel) \in unset
              => (response.via = "fatal" /\ response.net = "none" /\ response.code = 500)

\* a poll of the image edit found no status template
C24_Witness ==
    /\ StatusResponded /\ response.calls = <<"poll_edit">>
    /\ "status:seedream_edit" \in unset
    /\ response.via = "fatal" /\ response.net = "none"

\* C25: a single-step record never holds an image-edit or a video provider
\* id, a status request for it makes the one poll and no submit, and the id
\* it polls is the id the submit returned at creation (the key of the record).
C25_SingleStepOneProviderId ==
    /\ \A ref \in Records :
          heap[ref].model = "runway_act_two" =>
              /\ heap[ref].seedream_task_id = None
              /\ heap[ref].kling_task_id = None
    /\ \A r \in Reqs :
          (req[r].pc # "idle" /\ heap[req[r].task_data].model = "runway_act_two") =>
              /\ req[r].pc = "poll_runway"
              /\ req[r].calls = <<"poll_runway">>
              /\ req[r].provider_id = req[r].task_id
    /\ (StatusResponded /\ response.task_data # 0
          /\ Answered.model = "runway_act_two") =>
              /\ response.calls = <<"poll_runway">>
              /\ response.polled_id = response.task_id

\* a single-step record was polled to completion
C25_Witness ==
    /\ StatusResponded /\ response.task_data # 0
    /\ Answered.model = "runway_act_two"
    /\ response.calls = <<"poll_runway">>
    /\ response.polled_id = response.task_id
    /\ response.code = 200 /\ Answered.status = "COMPLETED"

\* C26: for a pipeline task, the progress label of a status response is the
\* label the status normalizer gives the returned status (PROCESSING gives
\* "Processing", IN_PROGRESS gives "In Progress"), in every polling stage.
C26_PipelineLabelIsNormalized ==
    (/\ StatusResponded /\ response.task_data # 0
     /\ Answered.model = "seedream_kling"
     /\ response.code = 200
     /\ response.status \in TaskStatusValues)
        => response.progress_stage = NormalizedLabel[response.status]

\* C27: a pipeline record whose stored stage is FAILED has stored status
\* FAILED, whichever way the stage became FAILED.
C27_FailedStageHasFailedStatus ==
    \A ref \in Records :
        (IsPipeline(ref) /\ heap[ref].pipeline_stage = "FAILED")
            => heap[ref].status = "FAILED"

\* the stages a pipeline record is ever stored with
PipelineStoredStages ==
    {"IMAGE_EDIT_STARTED", "IMAGE_EDIT_COMPLETED", "VIDEO_STARTED",
     "PIPELINE_COMPLETED", "FAILED"}

\* C28: the stored stage of a pipeline record is one of IMAGE_EDIT_STARTED,
\* IMAGE_EDIT_COMPLETED, VIDEO_STARTED, PIPELINE_COMPLETED, FAILED, and with
\* status requests handled one at a time it is IMAGE_EDIT_COMPLETED only
\* while a request for that record is waiting for the video submit.
C28_StoredStagesOfPipeline ==
    \A ref \in Records :
        IsPipeline(ref) =>
            /\ heap[ref].pipeline_stage \in PipelineStoredStages
            /\ heap[ref].pipeline_stage = "IMAGE_EDIT_COMPLETED" =>
                  \E r \in Reqs : /\ req[r].pc = "submit_kling"
                                  /\ req[r].task_data = ref

\* a request waits for the video submit with the stage at IMAGE_EDIT_COMPLETED
C28_Witness ==
    \E ref \in Records, r \in Reqs :
        /\ IsPipeline(ref) /\ heap[ref].pipeline_stage = "IMAGE_EDIT_COMPLETED"
        /\ req[r].pc = "submit_kling" /\ req[r].task_data = ref

\* C29: a stored result URL list that is non-empty stays non-empty after
\* every step, and a pipeline record whose stage is PIPELINE_COMPLETED has a
\* non-empty result URL list.
C29_ResultUrlsNeverEmptied ==
    [][\A ref \in DOMAIN heap' :
         /\ (ref \in Records /\ heap[ref].result_urls # << >>)
                => heap'[ref].result_urls # << >>
         /\ (heap'[ref].model = "seedream_kling"
              /\ heap'[ref].pipeline_stage = "PIPELINE_COMPLETED")
                => heap'[ref].result_urls # << >>]_vars

\* request r's provider call returns in this step
Returned(r) == req[r].pc # "idle" /\ req'[r] # req[r]

\* the answer that returned to request r was COMPLETED with a non-empty URL
\* list (a poll) or a created task (the video submit)
AnsweredCompleted(r) ==
    CASE req[r].pc = "poll_edit" -> req'[r].pc = "submit_kling"
      [] req[r].pc = "submit_kling" -> response'.via = "video_started"
      [] req[r].pc = "poll_kling" ->
             response'.via = "video_completed" /\ response'.result_urls # << >>
      [] OTHER -> TRUE

\* the video submit succeeds: no request ends in the response of a failed
\* submit (main.py:387-390)
SubmitSucceeds == [](response.via # "submit_failed")

\* from some point on every poll is answered COMPLETED with a non-empty list
ProviderSettles ==
    <>[][\A r \in Reqs : Returned(r) => AnsweredCompleted(r)]_vars

PipelineCreated == \E ref \in Records : IsPipeline(ref)

PipelineDone ==
    \E ref \in Records :
        /\ IsPipeline(ref)
        /\ heap[ref].pipeline_stage = "PIPELINE_COMPLETED"
        /\ heap[ref].result_urls # << >>

\* a step that handles no status request leaves every stored stage unchanged
StageMovesOnlyOnStatus ==
    [][req' = req =>
          \A ref \in Records : heap'[ref].pipeline_stage = heap[ref].pipeline_stage]_vars

\* no poll is answered with a final status the pipeline cannot leave: FAILED,
\* or COMPLETED with an empty URL list on the video poll
NoEarlyFinalAnswer ==
    [](/\ response.via # "provider_failed"
       /\ ~(response.via = "video_completed" /\ response.result_urls = << >>))

\* C30 as stated: if the client keeps asking, one request at a time, the video
\* submit succeeds and the provider eventually answers every poll COMPLETED
\* with a non-empty URL list, the pipeline task eventually reaches
\* PIPELINE_COMPLETED with non-empty result URLs; and with no status request
\* the stage never changes.
C30_PolledPipelineCompletes ==
    /\ (SubmitSucceeds /\ ProviderSettles) => (PipelineCreated ~> PipelineDone)
    /\ StageMovesOnlyOnStatus

\* C30, amended: if moreover no poll before that point is answered FAILED
\* and no video poll COMPLETED with an empty URL list, the pipeline task
\* eventually reaches PIPELINE_COMPLETED with non-empty result URLs; and
\* with no status request the stage never changes.
C30_PolledPipelineCompletesUnlessFinal ==
    /\ (SubmitSucceeds /\ NoEarlyFinalAnswer /\ ProviderSettles)
          => (PipelineCreated ~> PipelineDone)
    /\ StageMovesOnlyOnStatus

\* the pipeline completed with result URLs and the client asked again
C30_Witness ==
    /\ PipelineDone
    /\ StatusResponded /\ response.via = "fallback"

\* C31: a status request that ends with an error leaves the record as it was
\* before the request, except that a failed video submit sets the stage to
\* FAILED and stores the intermediate URL. A request that made one provider
\* call ends in the step that returns from it, so the record is compared
\* across that step; for a request that also made the video submit the
\* stored stage is compared with the stage the request read on entry.
C31_ErrorLeavesRecord ==
    [][(/\ response'.endpoint = "status"
        /\ response'.code >= 400
        /\ response'.task_data # 0) =>
          LET ref == response'.task_data
          IN  IF response'.via = "submit_failed"
              THEN /\ heap'[ref].pipeline_stage = "FAILED"
                   /\ heap'[ref].intermediate_url # None
              ELSE IF Len(response'.calls) <= 1
              THEN heap' = heap
              ELSE heap'[ref].pipeline_stage = response'.entry_stage]_vars

\* the stored statuses of a single-step task that are final
TerminalStatuses == {"COMPLETED", "READY", "FAILED"}

\* C32: once the stored status of a single-step task is COMPLETED, READY or
\* FAILED, no step changes it, whatever later polls answer and whether
\* status requests overlap or not.
C32_TerminalStatusIsKept ==
    [][\A ref \in Records :
         (heap[ref].model = "runway_act_two" /\ heap[ref].status \in TerminalStatuses)
            => heap'[ref].status = heap[ref].status]_vars

====
